---- MODULE Spec2Model ----
(***************************************************************************)
(* The ledger application of src/App.tsx: the React state of the App       *)
(* component (the transaction list and the flags around it), its handlers, *)
(* and the ledger derivation of the useMemo block, computed as the code    *)
(* computes it (distinct parties in first-seen order, per-party filter,    *)
(* stable date sort, one walk with a running balance and two totals).      *)
(*                                                                         *)
(* Three specifications share the variables:                               *)
(*   Spec        the application: uploads, manual entry, reset, tabs;      *)
(*   SpecDerive  the derivation as a function: Init draws the transaction  *)
(*               list from all lists up to MaxLen, Derive applies it;      *)
(*   SpecTotals  the same over transactions with fractional amounts.       *)
(*                                                                         *)
(* Amounts and balances are JavaScript numbers, IEEE-754 binary64.  The    *)
(* model writes a number as the string JavaScript prints for it, and adds  *)
(* and subtracts by tables of the binary64 results.                        *)
(***************************************************************************)
EXTENDS Integers, Sequences, FiniteSets, Bags, TLC

VARIABLES
    transactions,   \* useState<Transaction[]>            App.tsx:24
    isProcessing,   \* useState(false)                    App.tsx:25
    error,          \* useState<string | null>            App.tsx:26
    activeTab,      \* useState<ViewMode>('capture')      App.tsx:27
    inputMode,      \* useState<'upload' | 'manual'>      App.tsx:28
    pending,        \* handleFileUpload calls suspended at the await (App.tsx:34):
                    \* a bag of the transaction lists their closures captured
    ledgers,        \* the value of the useMemo block      App.tsx:50-98
    derivations     \* how often the useMemo callback has run on this list

vars == <<transactions, isProcessing, error, activeTab, inputMode, pending,
          ledgers, derivations>>

(***************************************************************************)
(* Bounds.                                                                 *)
(***************************************************************************)
MaxLen == 3       \* longest transaction list SpecDerive derives from
MaxTxs == 3       \* longest transaction list Spec lets the producers build
MaxBatch == 2     \* most transactions one manual entry or extraction delivers
MaxPending == 1   \* most uploads in flight at once
MaxDerivations == 2   \* most runs of the derivation on one list

(***************************************************************************)
(* Transactions (src/types.ts:4-12).  The id is the position at which the  *)
(* producer delivered the transaction: opaque and unique within a list.    *)
(***************************************************************************)
\* Date strings in the order String.prototype.localeCompare puts them.
DateOrder == <<"2024-01-01", "2024-01-05">>

Dates == {DateOrder[i] : i \in DOMAIN DateOrder}

PartyNames == {"", "ABC Traders"}

\* <<accountType, debit, credit>>: a debit-natured type with a debit, one
\* with more credit than debit, a credit-natured type with a credit, and a
\* type outside the enumeration with more debit than credit.
Kinds ==
    {<<"Asset", "1", "0">>, <<"Expense", "1", "2">>,
     <<"Income", "0", "1">>, <<"Unknown", "2", "1">>}

\* The same with amounts that binary64 does not hold exactly.
FractionKinds ==
    {<<"Asset", "0.1", "0.3">>, <<"Expense", "0.2", "0.2">>,
     <<"Income", "0.3", "0.1">>}

BodiesOf(kinds) ==
    {[date |-> d, particulars |-> "voucher", debit |-> k[2], credit |-> k[3],
      party |-> p, accountType |-> k[1]] :
        d \in Dates, k \in kinds, p \in PartyNames}

TxBodies == BodiesOf(Kinds)

FractionBodies == BodiesOf(FractionKinds)

MkTx(id, b) ==
    [id |-> id, date |-> b.date, particulars |-> b.particulars,
     debit |-> b.debit, credit |-> b.credit, party |-> b.party,
     accountType |-> b.accountType]

\* The transactions a producer delivers after `n` earlier ones.
WithIds(n, bodies) == [i \in 1..Len(bodies) |-> MkTx(n + i, bodies[i])]

Front(s) == SubSeq(s, 1, Len(s) - 1)

Last(s) == s[Len(s)]

(***************************************************************************)
(* Number arithmetic.  a + b and a - b in binary64, round to nearest even, *)
(* on the values that ledgers of up to five entries over Kinds and over    *)
(* FractionKinds reach.                                                    *)
(***************************************************************************)
SumTable ==
       <<"-4", "-1">> :> "-5"
    @@ <<"-4", "1">> :> "-3"
    @@ <<"-3", "-1">> :> "-4"
    @@ <<"-3", "1">> :> "-2"
    @@ <<"-2", "-1">> :> "-3"
    @@ <<"-2", "1">> :> "-1"
    @@ <<"-1", "-1">> :> "-2"
    @@ <<"-1", "1">> :> "0"
    @@ <<"-0.7999999999999999", "-0.19999999999999998">> :> "-0.9999999999999999"
    @@ <<"-0.7999999999999999", "0.19999999999999998">> :> "-0.6"
    @@ <<"-0.6", "-0.19999999999999998">> :> "-0.7999999999999999"
    @@ <<"-0.6", "0.19999999999999998">> :> "-0.4"
    @@ <<"-0.4", "-0.19999999999999998">> :> "-0.6"
    @@ <<"-0.4", "0.19999999999999998">> :> "-0.20000000000000004"
    @@ <<"-0.39999999999999997", "-0.19999999999999998">> :> "-0.6"
    @@ <<"-0.39999999999999997", "0.19999999999999998">> :> "-0.19999999999999998"
    @@ <<"-0.19999999999999998", "-0.19999999999999998">> :> "-0.39999999999999997"
    @@ <<"-0.19999999999999998", "0.19999999999999998">> :> "0"
    @@ <<"0.1", "0.1">> :> "0.2"
    @@ <<"0.1", "0.2">> :> "0.30000000000000004"
    @@ <<"0.1", "0.3">> :> "0.4"
    @@ <<"0.19999999999999998", "-0.19999999999999998">> :> "0"
    @@ <<"0.19999999999999998", "0.19999999999999998">> :> "0.39999999999999997"
    @@ <<"0.2", "0.1">> :> "0.30000000000000004"
    @@ <<"0.2", "0.2">> :> "0.4"
    @@ <<"0.2", "0.3">> :> "0.5"
    @@ <<"0.3", "0.1">> :> "0.4"
    @@ <<"0.3", "0.2">> :> "0.5"
    @@ <<"0.3", "0.3">> :> "0.6"
    @@ <<"0.30000000000000004", "0.1">> :> "0.4"
    @@ <<"0.30000000000000004", "0.2">> :> "0.5"
    @@ <<"0.30000000000000004", "0.3">> :> "0.6000000000000001"
    @@ <<"0.39999999999999997", "-0.19999999999999998">> :> "0.19999999999999998"
    @@ <<"0.39999999999999997", "0.19999999999999998">> :> "0.6"
    @@ <<"0.4", "-0.19999999999999998">> :> "0.20000000000000004"
    @@ <<"0.4", "0.1">> :> "0.5"
    @@ <<"0.4", "0.19999999999999998">> :> "0.6"
    @@ <<"0.4", "0.2">> :> "0.6000000000000001"
    @@ <<"0.4", "0.3">> :> "0.7"
    @@ <<"0.5", "0.1">> :> "0.6"
    @@ <<"0.5", "0.2">> :> "0.7"
    @@ <<"0.5", "0.3">> :> "0.8"
    @@ <<"0.6", "-0.19999999999999998">> :> "0.4"
    @@ <<"0.6", "0.1">> :> "0.7"
    @@ <<"0.6", "0.19999999999999998">> :> "0.7999999999999999"
    @@ <<"0.6", "0.2">> :> "0.8"
    @@ <<"0.6", "0.3">> :> "0.8999999999999999"
    @@ <<"0.6000000000000001", "0.1">> :> "0.7000000000000001"
    @@ <<"0.6000000000000001", "0.2">> :> "0.8"
    @@ <<"0.6000000000000001", "0.3">> :> "0.9000000000000001"
    @@ <<"0.7", "0.1">> :> "0.7999999999999999"
    @@ <<"0.7", "0.2">> :> "0.8999999999999999"
    @@ <<"0.7", "0.3">> :> "1"
    @@ <<"0.7000000000000001", "0.1">> :> "0.8"
    @@ <<"0.7000000000000001", "0.2">> :> "0.9000000000000001"
    @@ <<"0.7000000000000001", "0.3">> :> "1"
    @@ <<"0.7999999999999999", "-0.19999999999999998">> :> "0.6"
    @@ <<"0.7999999999999999", "0.1">> :> "0.8999999999999999"
    @@ <<"0.7999999999999999", "0.19999999999999998">> :> "0.9999999999999999"
    @@ <<"0.7999999999999999", "0.2">> :> "1"
    @@ <<"0.7999999999999999", "0.3">> :> "1.0999999999999999"
    @@ <<"0.8", "0.1">> :> "0.9"
    @@ <<"0.8", "0.2">> :> "1"
    @@ <<"0.8", "0.3">> :> "1.1"
    @@ <<"0.8999999999999999", "0.1">> :> "0.9999999999999999"
    @@ <<"0.8999999999999999", "0.2">> :> "1.0999999999999999"
    @@ <<"0.8999999999999999", "0.3">> :> "1.2"
    @@ <<"0.9", "0.1">> :> "1"
    @@ <<"0.9", "0.2">> :> "1.1"
    @@ <<"0.9", "0.3">> :> "1.2"
    @@ <<"0.9000000000000001", "0.1">> :> "1.0000000000000002"
    @@ <<"0.9000000000000001", "0.2">> :> "1.1"
    @@ <<"0.9000000000000001", "0.3">> :> "1.2000000000000002"
    @@ <<"0.9999999999999999", "0.1">> :> "1.0999999999999999"
    @@ <<"0.9999999999999999", "0.2">> :> "1.2"
    @@ <<"0.9999999999999999", "0.3">> :> "1.2999999999999998"
    @@ <<"1", "-1">> :> "0"
    @@ <<"1", "0.1">> :> "1.1"
    @@ <<"1", "0.2">> :> "1.2"
    @@ <<"1", "0.3">> :> "1.3"
    @@ <<"1", "1">> :> "2"
    @@ <<"1", "2">> :> "3"
    @@ <<"1.0999999999999999", "0.1">> :> "1.2"
    @@ <<"1.0999999999999999", "0.2">> :> "1.2999999999999998"
    @@ <<"1.0999999999999999", "0.3">> :> "1.4"
    @@ <<"1.1", "0.1">> :> "1.2000000000000002"
    @@ <<"1.1", "0.2">> :> "1.3"
    @@ <<"1.1", "0.3">> :> "1.4000000000000001"
    @@ <<"1.2", "0.1">> :> "1.3"
    @@ <<"1.2", "0.2">> :> "1.4"
    @@ <<"1.2", "0.3">> :> "1.5"
    @@ <<"2", "-1">> :> "1"
    @@ <<"2", "1">> :> "3"
    @@ <<"2", "2">> :> "4"
    @@ <<"3", "-1">> :> "2"
    @@ <<"3", "1">> :> "4"
    @@ <<"3", "2">> :> "5"
    @@ <<"4", "-1">> :> "3"
    @@ <<"4", "1">> :> "5"
    @@ <<"4", "2">> :> "6"
    @@ <<"5", "1">> :> "6"
    @@ <<"5", "2">> :> "7"
    @@ <<"6", "1">> :> "7"
    @@ <<"6", "2">> :> "8"
    @@ <<"7", "1">> :> "8"
    @@ <<"7", "2">> :> "9"
    @@ <<"8", "1">> :> "9"
    @@ <<"8", "2">> :> "10"

DifferenceTable ==
       <<"0", "1">> :> "-1"
    @@ <<"0.1", "0.3">> :> "-0.19999999999999998"
    @@ <<"0.2", "0.2">> :> "0"
    @@ <<"0.3", "0.1">> :> "0.19999999999999998"
    @@ <<"1", "0">> :> "1"
    @@ <<"1", "2">> :> "-1"
    @@ <<"2", "1">> :> "1"

NegativeDoubles ==
    {"-5", "-4", "-3", "-2", "-1", "-0.9999999999999999", "-0.7999999999999999", "-0.6", "-0.4", "-0.39999999999999997", "-0.20000000000000004", "-0.19999999999999998"}

\* a + b (adding 0 returns the other operand).
fadd(a, b) ==
    IF a = "0" THEN b ELSE IF b = "0" THEN a ELSE SumTable[<<a, b>>]

\* a - b
fsub(a, b) == DifferenceTable[<<a, b>>]

\* a >= 0
notNegative(a) == a \notin NegativeDoubles

(***************************************************************************)
(* Ledger derivation: the useMemo callback, App.tsx:50-98.                 *)
(***************************************************************************)
DateRank(d) == CHOOSE i \in DOMAIN DateOrder : DateOrder[i] = d

\* a.date.localeCompare(b.date): negative, zero or positive.
localeCompare(a, b) ==
    IF DateRank(a) < DateRank(b) THEN -1
    ELSE IF DateRank(a) > DateRank(b) THEN 1 ELSE 0

\* A faulty variant of parties: the Set is forgotten, one name per transaction.
partiesNoSet(T) == [i \in 1..Len(T) |-> T[i].party]

\* Array.from(new Set(transactions.map(t => t.party))): a Set iterates in
\* insertion order, so each party stands where it was first seen.
RECURSIVE parties(_)
parties(T) ==
    IF T = <<>> THEN <<>>
    ELSE LET seen == parties(Front(T))
             p == Last(T).party
         IN  IF \E i \in DOMAIN seen : seen[i] = p THEN seen
             ELSE Append(seen, p)

\* A faulty variant of filterByParty: t.party.includes(party), which the empty party
\* name satisfies for every transaction.
filterByPartyIncludes(T, party) ==
    SelectSeq(T, LAMBDA t : t.party = party \/ party = "")

\* transactions.filter(t => t.party === party): a new array.
filterByParty(T, party) == SelectSeq(T, LAMBDA t : t.party = party)

\* A faulty variant of InsertStable: x goes in front of the elements equal to it.
InsertUnstable(sorted, x) ==
    LET k == Cardinality({i \in DOMAIN sorted :
                            localeCompare(sorted[i].date, x.date) < 0})
    IN  SubSeq(sorted, 1, k) \o <<x>> \o SubSeq(sorted, k + 1, Len(sorted))

\* One step of a stable sort: x, which came after every element of `sorted`
\* in the array being sorted, goes behind the elements that compare <= x.
InsertStable(sorted, x) ==
    LET k == Cardinality({i \in DOMAIN sorted :
                            localeCompare(sorted[i].date, x.date) <= 0})
    IN  SubSeq(sorted, 1, k) \o <<x>> \o SubSeq(sorted, k + 1, Len(sorted))

\* .sort((a, b) => a.date.localeCompare(b.date)): Array.prototype.sort is
\* stable (ECMAScript 2019).
RECURSIVE sortByDate(_)
sortByDate(s) ==
    IF s = <<>> THEN <<>>
    ELSE InsertStable(sortByDate(Front(s)), Last(s))

isAssetOrExpense(accountType) ==
    accountType = "Asset" \/ accountType = "Expense"

\* A faulty variant of balanceStep: the debit-natured rule for every account type.
balanceStepDebitNatured(tx) == fsub(tx.debit, tx.credit)

\* What one transaction adds to runningBalance (App.tsx:68-72).
balanceStep(tx) ==
    IF isAssetOrExpense(tx.accountType) THEN fsub(tx.debit, tx.credit)
    ELSE fsub(tx.credit, tx.debit)

\* A faulty variant of balanceTypeOf: > 0 where the code has >= 0.
balanceTypeOfStrict(runningBalance, assetOrExpense) ==
    IF runningBalance # "0" /\ notNegative(runningBalance)
    THEN (IF assetOrExpense THEN "Dr" ELSE "Cr")
    ELSE (IF assetOrExpense THEN "Cr" ELSE "Dr")

\* The label of a balance (App.tsx:77-79 and 91-93).
balanceTypeOf(runningBalance, assetOrExpense) ==
    IF notNegative(runningBalance)
    THEN (IF assetOrExpense THEN "Dr" ELSE "Cr")
    ELSE (IF assetOrExpense THEN "Cr" ELSE "Dr")

\* A faulty variant of addDebit: the credit column is added.
addDebitFromCredit(totalDebit, tx) == fadd(totalDebit, tx.credit)

\* totalDebit += tx.debit
addDebit(totalDebit, tx) == fadd(totalDebit, tx.debit)

\* totalCredit += tx.credit
addCredit(totalCredit, tx) == fadd(totalCredit, tx.credit)

\* { ...tx, balance, balanceType }
MkEntry(tx, runningBalance) ==
    [id |-> tx.id, date |-> tx.date, particulars |-> tx.particulars,
     debit |-> tx.debit, credit |-> tx.credit, party |-> tx.party,
     accountType |-> tx.accountType,
     balance |-> runningBalance,
     balanceType |-> balanceTypeOf(runningBalance,
                                   isAssetOrExpense(tx.accountType))]

\* partyTxs.map(tx => ...) with its three accumulators, after the whole of s.
RECURSIVE walk(_)
walk(s) ==
    IF s = <<>>
    THEN [entries |-> <<>>, runningBalance |-> "0",
          totalDebit |-> "0", totalCredit |-> "0"]
    ELSE LET w == walk(Front(s))
             tx == Last(s)
             rb == fadd(w.runningBalance, balanceStep(tx))
         IN  [entries |-> Append(w.entries, MkEntry(tx, rb)),
              runningBalance |-> rb,
              totalDebit |-> addDebit(w.totalDebit, tx),
              totalCredit |-> addCredit(w.totalCredit, tx)]

\* A faulty variant of firstTx: the last transaction of the party.
lastTx(s) == s[Len(s)]

\* const firstTx = partyTxs[0]
firstTx(s) == s[1]

\* The AccountLedger of one party from its sorted transactions s
\* (App.tsx:58-96).
ledgerOf(s, party) ==
    LET w == walk(s)
    IN  [accountName |-> party,
         entries |-> w.entries,
         openingBalance |-> "0",
         closingBalance |-> w.runningBalance,
         closingBalanceType |->
             balanceTypeOf(w.runningBalance,
                           isAssetOrExpense(firstTx(s).accountType)),
         totalDebit |-> w.totalDebit,
         totalCredit |-> w.totalCredit]

\* The arrays the callback works on: `transactions`, the list it reads, and
\* `partyTxs`, the array of the iteration at hand.
heapOf(T) == [transactions |-> T, partyTxs |-> <<>>]

\* transactions.filter(...) builds a new array; partyTxs is to refer to it.
filterNew(heap, party) ==
    [heap EXCEPT !.partyTxs = filterByParty(heap.transactions, party)]

\* array.sort(...) reorders the array it is called on and returns it.
sortInPlace(heap, array) == [heap EXCEPT ![array] = sortByDate(@)]

\* A faulty variant of partyTxs: transactions.sort(...).filter(...), the sort
\* called on the list itself.
partyTxsSortFirst(heap, party) ==
    filterNew(sortInPlace(heap, "transactions"), party)

\* const partyTxs = transactions.filter(...).sort(...): the sort is called on
\* the array filter returned (App.tsx:54-56).
partyTxs(heap, party) == sortInPlace(filterNew(heap, party), "partyTxs")

\* The arrays after parties.map(party => ...) has done the first n of the
\* parties ps.
RECURSIVE arraysAfter(_, _, _)
arraysAfter(heap, ps, n) ==
    IF n = 0 THEN heap
    ELSE partyTxs(arraysAfter(heap, ps, n - 1), ps[n])

\* The ledgers the useMemo callback returns for the list T: the n-th from
\* the partyTxs of the n-th iteration.
deriveLedgers(T) ==
    LET ps == parties(T)
    IN  [n \in 1..Len(ps) |->
            ledgerOf(arraysAfter(heapOf(T), ps, n).partyTxs, ps[n])]

\* The transaction list as the callback leaves it.
inputAfterDerive(T) ==
    LET ps == parties(T)
    IN  arraysAfter(heapOf(T), ps, Len(ps)).transactions

(***************************************************************************)
(* SpecDerive: the derivation applied to every list up to MaxLen.          *)
(***************************************************************************)
NoError == "null"

InitWith(bodies) ==
    /\ \E n \in 0..MaxLen :
         \E bs \in [1..n -> bodies] : transactions = WithIds(0, bs)
    /\ isProcessing = FALSE
    /\ error = NoError
    /\ activeTab = "ledgers"
    /\ inputMode = "upload"
    /\ pending = EmptyBag
    /\ ledgers = <<>>
    /\ derivations = 0

InitDerive == InitWith(TxBodies)

\* One run of the callback: the ledgers it returns and the list it leaves.
Derive ==
    /\ derivations < MaxDerivations
    /\ derivations' = derivations + 1
    /\ transactions' = inputAfterDerive(transactions)
    /\ ledgers' = deriveLedgers(transactions)
    /\ UNCHANGED <<isProcessing, error, activeTab, inputMode, pending>>

NextDerive == Derive

SpecDerive == InitDerive /\ [][NextDerive]_vars

(***************************************************************************)
(* SpecTotals: the derivation applied to lists of fractional amounts.      *)
(***************************************************************************)
InitTotals == InitWith(FractionBodies)

NextTotals == Derive

SpecTotals == InitTotals /\ [][NextTotals]_vars

(***************************************************************************)
(* Spec: the App component.  A handler and the render that follows its     *)
(* state updates are one step: React runs them without letting another     *)
(* event in, and the render recomputes `ledgers` when `transactions` has   *)
(* changed (the dependency list of useMemo, App.tsx:98).                   *)
(***************************************************************************)
AnalysisFailed == "AI analysis failed. Please check your data or try manual entry."

Tabs == {"capture", "topsheet", "ledgers"}

InputModes == {"upload", "manual"}

\* What the two producers deliver: transactions without their ids.
ProducedBodies ==
    {b \in TxBodies :
        \/ /\ b.date = "2024-01-05" /\ b.party = "ABC Traders"
           /\ b.accountType = "Asset" /\ b.debit = "1"
        \/ /\ b.date = "2024-01-01" /\ b.party = ""
           /\ b.accountType = "Income" /\ b.credit = "1"}

Batches == UNION {[1..n -> ProducedBodies] : n \in 0..MaxBatch}

Init ==
    /\ transactions = <<>>
    /\ isProcessing = FALSE
    /\ error = NoError
    /\ activeTab = "capture"
    /\ inputMode = "upload"
    /\ pending = EmptyBag
    /\ ledgers = deriveLedgers(<<>>)
    /\ derivations = 1

\* The render after setTransactions(list): the useMemo callback runs on it.
Rerender(list) ==
    /\ derivations' = 1
    /\ transactions' = inputAfterDerive(list)
    /\ ledgers' = deriveLedgers(list)

\* A faulty variant of appendTxs: the updater drops what the list held.
appendTxsReplace(prev, newTxs) == newTxs

\* prev => [...prev, ...newTxs]   (App.tsx:35 and 46)
appendTxs(prev, newTxs) == prev \o newTxs

\* handleFileUpload up to its await (App.tsx:30-34).  The FileUploader is on
\* screen in the capture tab in upload mode (App.tsx:176, 194-195).
UploadStart ==
    /\ activeTab = "capture"
    /\ inputMode = "upload"
    /\ BagCardinality(pending) < MaxPending
    /\ isProcessing' = TRUE
    /\ error' = NoError
    /\ pending' = pending (+) SetToBag({transactions})
    /\ UNCHANGED <<transactions, activeTab, inputMode, ledgers, derivations>>

\* extractAccountingData resolves with `bodies` (App.tsx:35-36, 40-41) in the
\* call that captured `snapshot`.
UploadSuccess(snapshot, bodies) ==
    /\ BagIn(snapshot, pending)
    /\ Len(transactions) + Len(bodies) <= MaxTxs
    /\ activeTab' = "ledgers"
    /\ isProcessing' = FALSE
    /\ pending' = pending (-) SetToBag({snapshot})
    /\ UNCHANGED <<error, inputMode>>
    /\ Rerender(appendTxs(transactions, WithIds(Len(transactions), bodies)))

\* extractAccountingData rejects (App.tsx:37-41).
UploadFailure(snapshot) ==
    /\ BagIn(snapshot, pending)
    /\ error' = AnalysisFailed
    /\ isProcessing' = FALSE
    /\ pending' = pending (-) SetToBag({snapshot})
    /\ UNCHANGED <<transactions, activeTab, inputMode, ledgers, derivations>>

\* handleManualEntry (App.tsx:45-48).  The ManualInput is on screen in the
\* capture tab in manual mode (App.tsx:176, 196-197).
ManualEntry(bodies) ==
    /\ activeTab = "capture"
    /\ inputMode = "manual"
    /\ Len(transactions) + Len(bodies) <= MaxTxs
    /\ activeTab' = "ledgers"
    /\ UNCHANGED <<isProcessing, error, inputMode, pending>>
    /\ Rerender(appendTxs(transactions, WithIds(Len(transactions), bodies)))

\* The Reset Workspace button (App.tsx:143-150), confirm() answered.
Reset(confirmed) ==
    /\ Len(transactions) > 0
    /\ IF confirmed
       THEN /\ activeTab' = "capture"
            /\ UNCHANGED <<isProcessing, error, inputMode, pending>>
            /\ Rerender(<<>>)
       ELSE UNCHANGED vars

\* The tab buttons (App.tsx:116-136) and View Financial Summary (200-207).
SetActiveTab(tab) ==
    /\ Len(transactions) > 0
    /\ activeTab' = tab
    /\ UNCHANGED <<transactions, isProcessing, error, inputMode, pending,
                   ledgers, derivations>>

\* The two input mode buttons (App.tsx:176-191).
SetInputMode(mode) ==
    /\ activeTab = "capture"
    /\ inputMode' = mode
    /\ UNCHANGED <<transactions, isProcessing, error, activeTab, pending,
                   ledgers, derivations>>

Next ==
    \/ UploadStart
    \/ \E snapshot \in BagToSet(pending), bodies \in Batches :
           UploadSuccess(snapshot, bodies)
    \/ \E snapshot \in BagToSet(pending) : UploadFailure(snapshot)
    \/ \E bodies \in Batches : ManualEntry(bodies)
    \/ \E confirmed \in BOOLEAN : Reset(confirmed)
    \/ \E tab \in Tabs : SetActiveTab(tab)
    \/ \E mode \in InputModes : SetInputMode(mode)

Spec == Init /\ [][Next]_vars

(***************************************************************************)
(* Properties of the derivation, checked under SpecDerive.                 *)
(***************************************************************************)
\* The derivation has run on the list.
Derived == derivations >= 1

\* An entry without the two fields the derivation adds.
Strip(e) ==
    [id |-> e.id, date |-> e.date, particulars |-> e.particulars,
     debit |-> e.debit, credit |-> e.credit, party |-> e.party,
     accountType |-> e.accountType]

\* The places <<ledger, entry>> of the derived ledgers.
Places == UNION {{<<l, k>> : k \in DOMAIN ledgers[l].entries} : l \in DOMAIN ledgers}

PlacesOf(tx) == {pl \in Places : Strip(ledgers[pl[1]].entries[pl[2]]) = tx}

Occurrences(tx) == Cardinality({i \in DOMAIN transactions : transactions[i] = tx})

IndicesOf(party) == {i \in DOMAIN transactions : transactions[i].party = party}

\* C1: every transaction stands in exactly one ledger, the one named after
\* its party; the entries of all ledgers together are the transactions, as a
\* multiset; each ledger has as many entries as its party has transactions.
C1_Partition ==
    Derived =>
        /\ \A i \in DOMAIN transactions :
             /\ Cardinality(PlacesOf(transactions[i])) = Occurrences(transactions[i])
             /\ Cardinality({pl[1] : pl \in PlacesOf(transactions[i])}) = 1
             /\ \A pl \in PlacesOf(transactions[i]) :
                  ledgers[pl[1]].accountName = transactions[i].party
        /\ \A pl \in Places :
             \E i \in DOMAIN transactions :
                 transactions[i] = Strip(ledgers[pl[1]].entries[pl[2]])
        /\ Cardinality(Places) = Len(transactions)
        /\ \A l \in DOMAIN ledgers :
             Len(ledgers[l].entries) = Cardinality(IndicesOf(ledgers[l].accountName))

C1_Witness ==
    /\ Derived
    /\ Len(transactions) = 3
    /\ transactions[1].party = "ABC Traders"
    /\ transactions[2].party = ""
    /\ transactions[3].party = "ABC Traders"
    /\ Len(ledgers) = 2
    /\ Len(ledgers[1].entries) = 2
    /\ Len(ledgers[2].entries) = 1

FirstIndex(party) ==
    CHOOSE i \in IndicesOf(party) : \A j \in IndicesOf(party) : i <= j

\* C2: the account names of the ledgers are the distinct parties of the
\* list in order of first appearance (the empty name included); there are as
\* many ledgers as parties, and none exactly when the list is empty.
C2_FirstSeenOrder ==
    Derived =>
        /\ {ledgers[l].accountName : l \in DOMAIN ledgers}
               = {transactions[i].party : i \in DOMAIN transactions}
        /\ \A l, m \in DOMAIN ledgers :
             l < m => /\ ledgers[l].accountName # ledgers[m].accountName
                      /\ FirstIndex(ledgers[l].accountName)
                             < FirstIndex(ledgers[m].accountName)
        /\ Len(ledgers)
               = Cardinality({transactions[i].party : i \in DOMAIN transactions})
        /\ (ledgers = <<>>) <=> (transactions = <<>>)

C2_Witness ==
    /\ Derived
    /\ Len(transactions) = 3
    /\ transactions[1].party = "ABC Traders"
    /\ transactions[2].party = ""
    /\ transactions[3].party = "ABC Traders"
    /\ ledgers[1].accountName = "ABC Traders"
    /\ ledgers[2].accountName = ""

\* Where the transaction of an entry stands in the list.
InputIndex(e) == CHOOSE i \in DOMAIN transactions : transactions[i] = Strip(e)

\* C3: in every ledger the entries ascend by date, and entries of one date
\* stand in the order their transactions have in the list.
C3_StableDateOrder ==
    Derived =>
        \A l \in DOMAIN ledgers :
            \A j, k \in DOMAIN ledgers[l].entries :
                j < k =>
                    LET a == ledgers[l].entries[j]
                        b == ledgers[l].entries[k]
                    IN  /\ DateRank(a.date) <= DateRank(b.date)
                        /\ a.date = b.date => InputIndex(a) < InputIndex(b)

C3_Witness ==
    /\ Derived
    /\ Len(ledgers) = 1
    /\ Len(transactions) = 3
    /\ transactions[1].date = "2024-01-05"
    /\ transactions[2].date = "2024-01-01"
    /\ transactions[3].date = "2024-01-01"
    /\ [k \in 1..3 |-> ledgers[1].entries[k].id] = <<2, 3, 1>>

DebitNatured(e) == e.accountType \in {"Asset", "Expense"}

Movement(e) ==
    IF DebitNatured(e) THEN fsub(e.debit, e.credit) ELSE fsub(e.credit, e.debit)

RECURSIVE SeqSum(_)
\* The sum of a sequence of numbers, added from the left.
SeqSum(ns) == IF ns = <<>> THEN "0" ELSE fadd(SeqSum(Front(ns)), Last(ns))

\* The sum of f over the first k entries of es.
PrefixSum(es, k, f(_)) == SeqSum([i \in 1..k |-> f(es[i])])

DebitLessCredit(e) == fsub(e.debit, e.credit)

CreditLessDebit(e) == fsub(e.credit, e.debit)

\* C4: the balance of an entry is the balance of the entry before it (0 for
\* the first) plus debit - credit when the entry's own account type is Asset
\* or Expense, plus credit - debit otherwise; in a ledger of debit-natured
\* entries only it is the prefix sum of debit - credit, in a ledger of
\* credit-natured entries only the prefix sum of credit - debit.
C4_RunningBalance ==
    Derived =>
        \A l \in DOMAIN ledgers :
            LET es == ledgers[l].entries
            IN  /\ \A k \in DOMAIN es :
                     es[k].balance
                         = fadd(IF k = 1 THEN "0" ELSE es[k - 1].balance,
                                Movement(es[k]))
                /\ (\A k \in DOMAIN es : DebitNatured(es[k])) =>
                       \A k \in DOMAIN es :
                           es[k].balance = PrefixSum(es, k, DebitLessCredit)
                /\ (\A k \in DOMAIN es : ~DebitNatured(es[k])) =>
                       \A k \in DOMAIN es :
                           es[k].balance = PrefixSum(es, k, CreditLessDebit)

C4_Witness ==
    /\ Derived
    /\ \E l \in DOMAIN ledgers :
         LET es == ledgers[l].entries
         IN  /\ Len(es) = 3
             /\ es[1].accountType = "Income" /\ es[1].balance = "1"
             /\ es[2].accountType = "Expense" /\ es[2].balance = "0"
             /\ es[3].accountType = "Unknown" /\ es[3].balance = "-1"

\* C5: an entry is labelled Dr exactly when it is debit-natured with a
\* balance >= 0 or credit-natured with a balance < 0, and Cr otherwise.
C5_BalanceLabel ==
    Derived =>
        \A pl \in Places :
            LET e == ledgers[pl[1]].entries[pl[2]]
            IN  /\ e.balanceType \in {"Dr", "Cr"}
                /\ e.balanceType = "Dr" <=>
                       \/ DebitNatured(e) /\ notNegative(e.balance)
                       \/ ~DebitNatured(e) /\ ~notNegative(e.balance)

C5_Witness ==
    /\ Derived
    /\ \E l \in DOMAIN ledgers :
         LET es == ledgers[l].entries
         IN  /\ Len(es) = 2
             /\ es[1].accountType = "Expense" /\ es[1].balance = "-1"
             /\ es[1].balanceType = "Cr"
             /\ es[2].accountType = "Asset" /\ es[2].balance = "0"
             /\ es[2].balanceType = "Dr"

\* C6: the closing balance of a ledger is the balance of its last entry and
\* its closing label is the label of that entry, whatever account types the
\* transactions of the party carry.
C6_ClosingIsLastEntry ==
    Derived =>
        \A l \in DOMAIN ledgers :
            LET es == ledgers[l].entries
            IN  /\ ledgers[l].closingBalance = es[Len(es)].balance
                /\ ledgers[l].closingBalanceType = es[Len(es)].balanceType

\* C7: the closing label follows from the account type of the first entry of
\* the ledger and the closing balance alone: Dr exactly when that type is
\* Asset or Expense and the closing balance is >= 0, or it is anything else
\* and the closing balance is < 0.
C7_ClosingLabelFromFirst ==
    Derived =>
        \A l \in DOMAIN ledgers :
            LET first == ledgers[l].entries[1]
                closing == ledgers[l].closingBalance
            IN  /\ ledgers[l].closingBalanceType \in {"Dr", "Cr"}
                /\ ledgers[l].closingBalanceType = "Dr" <=>
                       \/ DebitNatured(first) /\ notNegative(closing)
                       \/ ~DebitNatured(first) /\ ~notNegative(closing)

C7_Witness ==
    /\ Derived
    /\ \E l \in DOMAIN ledgers :
         LET es == ledgers[l].entries
         IN  /\ Len(es) = 2
             /\ es[1].accountType = "Asset"
             /\ es[2].accountType = "Income"
             /\ ledgers[l].closingBalance = "2"
             /\ es[2].balanceType = "Cr"
             /\ ledgers[l].closingBalanceType = "Dr"

\* The sum of f over the transactions of `party` in T, added in list order.
SumOf(T, party, f(_)) ==
    LET own == SelectSeq(T, LAMBDA t : t.party = party)
    IN  SeqSum([i \in DOMAIN own |-> f(own[i])])

DebitOf(t) == t.debit

CreditOf(t) == t.credit

Permuted(T, p) == [i \in DOMAIN T |-> T[p[i]]]

\* The ledger of `party` among ls.
LedgerNamed(ls, party) == ls[CHOOSE l \in DOMAIN ls : ls[l].accountName = party]

\* The permutation p of the list leaves the transactions of `party` that
\* have one date in the order they had.
KeepsTies(p, party) ==
    \A i, j \in DOMAIN transactions :
        (/\ i < j
         /\ transactions[p[i]].party = party
         /\ transactions[p[j]].party = party
         /\ transactions[p[i]].date = transactions[p[j]].date) => p[i] < p[j]

\* C8 as claimed: totalDebit and totalCredit of a ledger are the sums of
\* debit and of credit over the transactions of its party, the same for every
\* order of the list; openingBalance is 0.
C8_TotalsAnyOrder ==
    Derived =>
        /\ \A l \in DOMAIN ledgers :
             LET party == ledgers[l].accountName
             IN  /\ ledgers[l].totalDebit = SumOf(transactions, party, DebitOf)
                 /\ ledgers[l].totalCredit = SumOf(transactions, party, CreditOf)
                 /\ ledgers[l].openingBalance = "0"
        /\ \A p \in Permutations(DOMAIN transactions) :
             LET others == deriveLedgers(Permuted(transactions, p))
             IN  \A l \in DOMAIN ledgers :
                     LET other == LedgerNamed(others, ledgers[l].accountName)
                     IN  /\ other.totalDebit = ledgers[l].totalDebit
                         /\ other.totalCredit = ledgers[l].totalCredit

\* C8, amended: totalDebit and totalCredit of a ledger are the sums of debit
\* and of credit over its entries, added in binary64 in the order of the
\* entries; they are the same for every order of the list that leaves the
\* party's transactions of one date in the order they had; openingBalance
\* is 0.
C8_TotalsInEntryOrder ==
    Derived =>
        /\ \A l \in DOMAIN ledgers :
             LET es == ledgers[l].entries
             IN  /\ ledgers[l].totalDebit = PrefixSum(es, Len(es), DebitOf)
                 /\ ledgers[l].totalCredit = PrefixSum(es, Len(es), CreditOf)
                 /\ ledgers[l].openingBalance = "0"
        /\ \A p \in Permutations(DOMAIN transactions) :
             LET others == deriveLedgers(Permuted(transactions, p))
             IN  \A l \in DOMAIN ledgers :
                     KeepsTies(p, ledgers[l].accountName) =>
                         LET other == LedgerNamed(others, ledgers[l].accountName)
                         IN  /\ other.totalDebit = ledgers[l].totalDebit
                             /\ other.totalCredit = ledgers[l].totalCredit

\* Three debits of one party and one date whose sum depends on the order:
\* 0.1 + 0.2 + 0.3 here, 0.3 + 0.2 + 0.1 = 0.6 with the list reversed.
C8_Witness ==
    /\ Derived
    /\ Len(transactions) = 3
    /\ Len(ledgers) = 1
    /\ \A i \in 1..3 : transactions[i].date = "2024-01-01"
    /\ [i \in 1..3 |-> transactions[i].debit] = <<"0.1", "0.2", "0.3">>
    /\ ledgers[1].totalDebit = "0.6000000000000001"
    /\ ledgers[1].totalCredit = "0.6"

\* C9: a run of the derivation leaves the transaction list as it was, and a
\* run on a list the derivation has run on before yields the ledgers the
\* run before yielded.
C9_InputUntouched ==
    [][/\ transactions' = transactions
       /\ derivations >= 1 => ledgers' = ledgers]_vars

\* The derivation has run twice on a list of two parties that is not in
\* date order.
C9_Witness ==
    /\ derivations = 2
    /\ Len(transactions) = 3
    /\ transactions[1].date = "2024-01-05"
    /\ transactions[2].date = "2024-01-01"
    /\ transactions[1].party # transactions[3].party
    /\ Len(ledgers) = 2

(***************************************************************************)
(* Properties of the application, checked under Spec.                      *)
(***************************************************************************)
Delivered(bodies) == WithIds(Len(transactions), bodies)

\* C10: a step leaves the transaction list alone, sets it to the list as it
\* is followed by the transactions delivered, or empties it; a successful
\* extraction and a manual entry do the second with what they deliver, only
\* a confirmed reset does the third, a failed extraction does the first.
C10_AppendOrReset ==
    [][/\ \/ transactions' = transactions
          \/ \E bodies \in Batches : transactions' = transactions \o Delivered(bodies)
          \/ transactions' = <<>> /\ Reset(TRUE)
       /\ \A snapshot \in BagToSet(pending) :
            /\ \A bodies \in Batches :
                 UploadSuccess(snapshot, bodies) =>
                     transactions' = transactions \o Delivered(bodies)
            /\ UploadFailure(snapshot) => transactions' = transactions
       /\ \A bodies \in Batches :
            ManualEntry(bodies) => transactions' = transactions \o Delivered(bodies)
       /\ Reset(TRUE) => transactions' = <<>>
       /\ UploadStart => transactions' = transactions]_vars

\* An upload is in flight whose call began before the list got its present
\* transactions, and there is room for what it may deliver.
C10_Witness ==
    /\ \E snapshot \in BagToSet(pending) :
         /\ Len(snapshot) < Len(transactions)
         /\ SubSeq(transactions, 1, Len(snapshot)) = snapshot
    /\ Len(transactions) < MaxTxs

====
